---- MODULE Spec2Model ----
(***************************************************************************)
(* kioto-serial (src/src/posix.rs): a blocking serial port bridged to an   *)
(* AsyncRead + AsyncWrite facade (SerialStream) by two relay threads       *)
(* (reader, writer), a tokio duplex pipe and two oneshot termination       *)
(* channels.                                                               *)
(*                                                                         *)
(* Bytes are numbered: the i-th byte the device delivers has value i, and  *)
(* the i-th byte the caller gets accepted by poll_write has value i, so    *)
(* any reordering, duplication, loss or alteration shows in the contents.  *)
(* The reader's buffer starts as zeroes (vec![0u8; 1024]), which no        *)
(* device byte equals.                                                     *)
(***************************************************************************)
EXTENDS Integers, Sequences, FiniteSets, TLC

\* ------------------------------------------------------------- bounds
\* max_buf_size: the pipe capacity the caller chose (builder default 1024)
Cap == 1
\* the reader's buffer length (1024 in the source), scaled down
ReadChunk == 2
\* the chunk capacity of the writer's ReaderStream (4096 in tokio-util), scaled
StreamCap == 2
\* total bytes the device delivers to reads
MaxIn == 3
\* total bytes the caller gets accepted by poll_write
MaxAcc == 3
\* largest number of bytes offered to one poll_write
MaxOffer == 3
\* largest ReadBuf capacity offered to one poll_read
MaxReq == 2

VARIABLES
    alive,      \* the caller still holds the SerialStream
    read_err,   \* SerialStream.read_err: state of the Map future
    write_err,  \* SerialStream.write_err: state of the Map future
    rterm,      \* oneshot channel read_thread_result_tx -> read_thread_result_rx
    wterm,      \* oneshot channel write_thread_result_tx -> write_thread_result_rx
    pipeR,      \* duplex pipe, reader thread (write_half) -> facade (reader_duplex)
    pipeW,      \* duplex pipe, facade (writer_duplex) -> writer thread (read_half)
    halves,     \* halves of the split for_rw_threads stream not yet dropped
    rpc,        \* reader thread position
    buffer,     \* reader's buffer
    rsz,        \* sz of the reader's last device read
    roff,       \* bytes of buffer[..sz] already forwarded by write_all
    rexit,      \* the value reader() returned
    wpc,        \* writer thread position
    whand,      \* the chunk the writer pulled and is writing to the device
    wexit,      \* the value writer() returned
    nIn,        \* bytes the reader obtained from device reads so far
    nAcc,       \* bytes accepted by poll_write so far
    devOut,     \* bytes the writer's handle has written to the device
    returned,   \* bytes poll_read has returned to the caller
    rres,       \* result of the latest poll_read
    wres,       \* result of the latest poll_write / poll_flush / poll_shutdown
    opc,        \* open(): the step it executes next, "returned" or "failed"
    ores,       \* open(): the error it returned
    rtask,      \* the task polling poll_read: its state and its waker's registrations
    wtask       \* the task polling poll_write: its state and its waker's registrations

vars == <<alive, read_err, write_err, rterm, wterm, pipeR, pipeW, halves,
          rpc, buffer, rsz, roff, rexit, wpc, whand, wexit,
          nIn, nAcc, devOut, returned, rres, wres, opc, ores, rtask, wtask>>

facadeVars == <<alive, read_err, write_err, rres, wres, returned, nAcc>>
readerVars == <<rpc, buffer, rsz, roff, rexit, nIn>>
writerVars == <<wpc, whand, wexit, devOut>>
openVars == <<opc, ores>>
wakeVars == <<rtask, wtask>>
linkVars == <<rterm, wterm, pipeR, pipeW, halves>>

\* ------------------------------------------------------------- values
Min(a, b) == IF a < b THEN a ELSE b

\* the bytes numbered from+1 .. from+n
Bytes(from, n) == [i \in 1..n |-> from + i]

IsPrefix(s, t) == Len(s) <= Len(t) /\ \A i \in 1..Len(s) : s[i] = t[i]

\* error kinds a device read or write can fail with
DevErrKinds == {"PermissionDenied"}

NoErr == [class |-> "none", kind |-> "none", msg |-> "none"]

\* enum Error
ErrIo(kind, msg) == [class |-> "Io", kind |-> kind, msg |-> msg]
ErrOneshotRecv == [class |-> "OneshotRecv", kind |-> "none", msg |-> "channel closed"]
ErrSenderClosed == [class |-> "SenderClosed", kind |-> "none", msg |-> "none"]

\* #[error(...)] Display of enum Error
Display(e) ==
    CASE e.class = "Io" -> "IO error"
      [] e.class = "OneshotRecv" -> "sending thread paniced channel closed"
      [] e.class = "SenderClosed" -> "sending channel closed"
      [] OTHER -> "none"

\* a oneshot channel: nothing sent yet, a value sent, or the sender dropped
\* without sending
ChEmpty == [st |-> "empty", val |-> NoErr]
ChSent(e) == [st |-> "sent", val |-> e]
ChClosed == [st |-> "closed", val |-> NoErr]

\* fn flatten: what the Map future yields for the receiver's output
flattenRecvErrAsIo(ch) == IF ch.st = "sent" THEN ch.val ELSE ErrIo("BrokenPipe", "pipe")
flatten(ch) == IF ch.st = "sent" THEN ch.val ELSE ErrOneshotRecv

\* fn to_std_io: the std::io::Error (kind, message) reported for an Error
to_std_ioAllOther(e) == [kind |-> "Other", msg |-> Display(e)]
to_std_io(e) ==
    IF e.class = "Io"
    THEN [kind |-> e.kind, msg |-> e.msg]
    ELSE [kind |-> "Other", msg |-> Display(e)]

NoIoErr == [kind |-> "none", msg |-> "none"]

\* results of facade polls
ResNone == [op |-> "none", kind |-> "none", err |-> NoIoErr]
ResPending(op) == [op |-> op, kind |-> "pending", err |-> NoIoErr]
ResOk(op) == [op |-> op, kind |-> "ok", err |-> NoIoErr]
ResErr(op, e) == [op |-> op, kind |-> "err", err |-> e]
ResPanic(op) == [op |-> op, kind |-> "panic", err |-> NoIoErr]

\* ------------------------------------------------------------- duplex pipe
\* tokio::io::duplex(max_buf_size): both pipes hold at most max_buf_size bytes
PipeCapacityUnbounded == MaxAcc + MaxIn + 1
PipeCapacityOffByOne == Cap + 1
PipeCapacity == Cap

NewPipe == [buf |-> <<>>, closed |-> FALSE]

\* Pipe::poll_read with room for n bytes: bytes if any, else EOF once closed,
\* else pending
PipeRead(p, n) ==
    IF p.buf # <<>>
    THEN LET k == Min(n, Len(p.buf)) IN
         [kind |-> "ok", data |-> SubSeq(p.buf, 1, k),
          pipe |-> [p EXCEPT !.buf = SubSeq(p.buf, k + 1, Len(p.buf))]]
    ELSE IF p.closed
    THEN [kind |-> "ok", data |-> <<>>, pipe |-> p]
    ELSE [kind |-> "pending", data |-> <<>>, pipe |-> p]

\* Pipe::poll_write of data: broken pipe once closed, pending when full, else
\* as many bytes as fit
PipeWrite(p, data) ==
    IF p.closed
    THEN [kind |-> "err", n |-> 0, pipe |-> p]
    ELSE IF PipeCapacity - Len(p.buf) = 0
    THEN [kind |-> "pending", n |-> 0, pipe |-> p]
    ELSE LET k == Min(Len(data), PipeCapacity - Len(p.buf)) IN
         [kind |-> "ok", n |-> k,
          pipe |-> [p EXCEPT !.buf = p.buf \o SubSeq(data, 1, k)]]

\* Pipe::close_write / close_read: both set is_closed
PipeClose(p) == [p EXCEPT !.closed = TRUE]

\* A relay thread drops its half h of the split for_rw_threads stream: the
\* stream itself (and with it both pipes) closes only with the last half.
RelayDropClosesAtOnce(h, p) == PipeClose(p)
RelayDrop(h, p) == IF halves \ {h} = {} THEN PipeClose(p) ELSE p

\* ------------------------------------------------------------- wakers
\* a task polling one direction of the facade: idle (free to poll), mid (inside
\* a poll, between the termination channel and the pipe), or parked (its last
\* poll returned Pending); chan / pipe: its waker is registered with the
\* termination channel / the pipe; woken: its waker has been invoked
IdleTask == [st |-> "idle", chan |-> FALSE, pipe |-> FALSE, woken |-> FALSE]

\* What a relay thread's step does to the registered wakers. oneshot: a send,
\* or the drop of the sender, wakes the receiver's task. Pipe: a write, and
\* close_write, take and wake read_waker; a read, and close_read, take and
\* wake write_waker.
NotifyChannelOnly ==
    /\ rtask' = LET c == rtask.chan /\ rterm' # rterm IN
                    [rtask EXCEPT !.chan = @ /\ ~c, !.woken = @ \/ c]
    /\ wtask' = LET c == wtask.chan /\ wterm' # wterm IN
                    [wtask EXCEPT !.chan = @ /\ ~c, !.woken = @ \/ c]
Notify ==
    /\ rtask' = LET c == rtask.chan /\ rterm' # rterm
                    p == /\ rtask.pipe
                         /\ \/ Len(pipeR'.buf) > Len(pipeR.buf)
                            \/ pipeR'.closed /\ ~pipeR.closed
                IN  [rtask EXCEPT !.chan = @ /\ ~c, !.pipe = @ /\ ~p,
                                  !.woken = @ \/ c \/ p]
    /\ wtask' = LET c == wtask.chan /\ wterm' # wterm
                    p == /\ wtask.pipe
                         /\ \/ Len(pipeW'.buf) < Len(pipeW.buf)
                            \/ pipeW'.closed /\ ~pipeW.closed
                IN  [wtask EXCEPT !.chan = @ /\ ~c, !.pipe = @ /\ ~p,
                                  !.woken = @ \/ c \/ p]

\* ------------------------------------------------------------- Init
Init ==
    /\ alive = TRUE
    /\ read_err = "Incomplete"
    /\ write_err = "Incomplete"
    /\ rterm = ChEmpty
    /\ wterm = ChEmpty
    /\ pipeR = NewPipe
    /\ pipeW = NewPipe
    /\ halves = {"read_half", "write_half"}
    /\ rpc = "read"
    /\ buffer = [i \in 1..ReadChunk |-> 0]
    /\ rsz = 0
    /\ roff = 0
    /\ rexit = NoErr
    /\ wpc = "pull"
    /\ whand = <<>>
    /\ wexit = NoErr
    /\ nIn = 0
    /\ nAcc = 0
    /\ devOut = <<>>
    /\ returned = <<>>
    /\ rres = ResNone
    /\ wres = ResNone
    /\ opc = "returned"
    /\ ores = NoIoErr
    /\ rtask = IdleTask
    /\ wtask = IdleTask

\* ------------------------------------------------------------- reader thread
\* &buffer[..sz], less what write_all has already forwarded
ReaderSliceWholeBuffer == SubSeq(buffer, roff + 1, ReadChunk)
ReaderSlice == SubSeq(buffer, roff + 1, rsz)

\* reader() returns Err(e): tx (write_half) and port are dropped
ReaderExit(e) ==
    /\ rpc' = "exited"
    /\ rexit' = e
    /\ halves' = halves \ {"write_half"}
    /\ pipeR' = RelayDrop("write_half", pipeR)
    /\ pipeW' = RelayDrop("write_half", pipeW)

\* let sz = port.read(&mut buffer)?  with Ok(sz): the device delivers sz bytes
ReaderReadZeroIsEof ==
    /\ rpc = "read"
    /\ \E sz \in 0..Min(ReadChunk, MaxIn - nIn) :
          /\ buffer' = [i \in 1..ReadChunk |->
                           IF i <= sz THEN nIn + i ELSE buffer[i]]
          /\ nIn' = nIn + sz
          /\ rsz' = sz
          /\ roff' = 0
          /\ IF sz = 0
             THEN ReaderExit(ErrIo("UnexpectedEof", "device"))
             ELSE rpc' = "forward" /\ UNCHANGED <<rexit, halves, pipeR, pipeW>>
    /\ UNCHANGED <<rterm, wterm>>
    /\ UNCHANGED facadeVars
    /\ UNCHANGED writerVars
    /\ UNCHANGED openVars
    /\ Notify
ReaderRead ==
    /\ rpc = "read"
    /\ \E sz \in 0..Min(ReadChunk, MaxIn - nIn) :
          /\ buffer' = [i \in 1..ReadChunk |->
                           IF i <= sz THEN nIn + i ELSE buffer[i]]
          /\ nIn' = nIn + sz
          /\ rsz' = sz
          /\ roff' = 0
          \* write_all of an empty slice returns Ok without touching the pipe
          /\ rpc' = IF sz = 0 THEN "read" ELSE "forward"
    /\ UNCHANGED <<rexit, halves, pipeR, pipeW, rterm, wterm>>
    /\ UNCHANGED facadeVars
    /\ UNCHANGED writerVars
    /\ UNCHANGED openVars
    /\ Notify

\* let sz = port.read(&mut buffer)?  with Err(e)
ReaderReadErr ==
    /\ rpc = "read"
    /\ \E k \in DevErrKinds : ReaderExit(ErrIo(k, "device"))
    /\ UNCHANGED <<buffer, rsz, roff, nIn, rterm, wterm>>
    /\ UNCHANGED facadeVars
    /\ UNCHANGED writerVars
    /\ UNCHANGED openVars
    /\ Notify

\* block_on(tx.write_all(&buffer[..sz]))?  one poll_write of the pipe that is
\* not pending (block_on parks the thread while the pipe is full)
ReaderForwardIgnoresErr ==
    /\ rpc = "forward"
    /\ LET r == PipeWrite(pipeR, ReaderSlice) IN
          /\ r.kind # "pending"
          /\ IF r.kind = "err"
             THEN /\ rpc' = "read"
                  /\ UNCHANGED <<roff, rexit, halves, pipeR, pipeW>>
             ELSE /\ pipeR' = r.pipe
                  /\ roff' = roff + r.n
                  /\ rpc' = IF r.n = Len(ReaderSlice) THEN "read" ELSE "forward"
                  /\ UNCHANGED <<rexit, halves, pipeW>>
    /\ UNCHANGED <<buffer, rsz, nIn, rterm, wterm>>
    /\ UNCHANGED facadeVars
    /\ UNCHANGED writerVars
    /\ UNCHANGED openVars
    /\ Notify
ReaderForward ==
    /\ rpc = "forward"
    /\ LET r == PipeWrite(pipeR, ReaderSlice) IN
          /\ r.kind # "pending"
          /\ IF r.kind = "err"
             THEN /\ ReaderExit(ErrIo("BrokenPipe", "pipe"))
                  /\ UNCHANGED roff
             ELSE /\ pipeR' = r.pipe
                  /\ roff' = roff + r.n
                  /\ rpc' = IF r.n = Len(ReaderSlice) THEN "read" ELSE "forward"
                  /\ UNCHANGED <<rexit, halves, pipeW>>
    /\ UNCHANGED <<buffer, rsz, nIn, rterm, wterm>>
    /\ UNCHANGED facadeVars
    /\ UNCHANGED writerVars
    /\ UNCHANGED openVars
    /\ Notify

\* read_thread_result_tx.send(..).unwrap(): delivered while the receiver
\* lives, else send returns Err and the unwrap panics
ReceiverLives == alive \/ opc # "returned"

ReaderDeliverIgnoresDrop ==
    /\ rpc = "exited"
    /\ rpc' = "sent"
    /\ rterm' = ChSent(rexit)
    /\ UNCHANGED <<buffer, rsz, roff, rexit, nIn, halves, pipeR, pipeW, wterm>>
    /\ UNCHANGED facadeVars
    /\ UNCHANGED writerVars
    /\ UNCHANGED openVars
    /\ Notify
ReaderDeliver ==
    /\ rpc = "exited"
    /\ IF ReceiverLives
       THEN rpc' = "sent" /\ rterm' = ChSent(rexit)
       ELSE rpc' = "panicked" /\ UNCHANGED rterm
    /\ UNCHANGED <<buffer, rsz, roff, rexit, nIn, halves, pipeR, pipeW, wterm>>
    /\ UNCHANGED facadeVars
    /\ UNCHANGED writerVars
    /\ UNCHANGED openVars
    /\ Notify

\* the reader thread panics inside its loop: the closure unwinds, dropping
\* the oneshot sender, write_half and the port
ReaderCrash ==
    /\ rpc \in {"read", "forward"}
    /\ rpc' = "crashed"
    /\ rterm' = ChClosed
    /\ halves' = halves \ {"write_half"}
    /\ pipeR' = RelayDrop("write_half", pipeR)
    /\ pipeW' = RelayDrop("write_half", pipeW)
    /\ UNCHANGED <<buffer, rsz, roff, rexit, nIn, wterm>>
    /\ UNCHANGED facadeVars
    /\ UNCHANGED writerVars
    /\ UNCHANGED openVars
    /\ Notify

\* ------------------------------------------------------------- writer thread
\* port.try_clone(): the writer writes through its own handle, which a read
\* in progress on the reader's handle does not hold
WritePortHeldByRead == rpc = "read"
WritePortHeld == FALSE

\* writer() returns Err(e): rx (read_half) and write_port are dropped
WriterExit(e) ==
    /\ wpc' = "exited"
    /\ wexit' = e
    /\ halves' = halves \ {"read_half"}
    /\ pipeR' = RelayDrop("read_half", pipeR)
    /\ pipeW' = RelayDrop("read_half", pipeW)

\* block_on(rx.next()) yields Some(Ok(buf)): the next chunk leaves the pipe
WriterPull ==
    /\ wpc = "pull"
    /\ LET r == PipeRead(pipeW, StreamCap) IN
          /\ r.kind = "ok"
          /\ r.data # <<>>
          /\ whand' = r.data
          /\ pipeW' = r.pipe
    /\ wpc' = "write"
    /\ UNCHANGED <<wexit, devOut, halves, pipeR, rterm, wterm>>
    /\ UNCHANGED facadeVars
    /\ UNCHANGED readerVars
    /\ UNCHANGED openVars
    /\ Notify

\* block_on(rx.next()) yields None (the pipe is closed and empty):
\* Err(Error::SenderClosed)
WriterEOFSpins ==
    /\ wpc = "pull"
    /\ LET r == PipeRead(pipeW, StreamCap) IN r.kind = "ok" /\ r.data = <<>>
    /\ UNCHANGED vars
WriterEOFNoDrain ==
    /\ wpc = "pull"
    /\ pipeW.closed
    /\ WriterExit(ErrSenderClosed)
    /\ UNCHANGED <<whand, devOut, rterm, wterm>>
    /\ UNCHANGED facadeVars
    /\ UNCHANGED readerVars
    /\ UNCHANGED openVars
    /\ Notify
WriterEOF ==
    /\ wpc = "pull"
    /\ LET r == PipeRead(pipeW, StreamCap) IN r.kind = "ok" /\ r.data = <<>>
    /\ WriterExit(ErrSenderClosed)
    /\ UNCHANGED <<whand, devOut, rterm, wterm>>
    /\ UNCHANGED facadeVars
    /\ UNCHANGED readerVars
    /\ UNCHANGED openVars
    /\ Notify

\* port.write_all(&buf[..])? returns Ok: the whole chunk is on the device
WriterWriteOk ==
    /\ wpc = "write"
    /\ ~WritePortHeld
    /\ devOut' = devOut \o whand
    /\ whand' = <<>>
    /\ wpc' = "pull"
    /\ UNCHANGED <<wexit, halves, pipeR, pipeW, rterm, wterm>>
    /\ UNCHANGED facadeVars
    /\ UNCHANGED readerVars
    /\ UNCHANGED openVars
    /\ Notify

\* port.write_all(&buf[..])? returns Err(e) after writing k bytes of the chunk
WriterWriteErrIgnored ==
    /\ wpc = "write"
    /\ ~WritePortHeld
    /\ \E k \in 0..(Len(whand) - 1) : devOut' = devOut \o SubSeq(whand, 1, k)
    /\ whand' = <<>>
    /\ wpc' = "pull"
    /\ UNCHANGED <<wexit, halves, pipeR, pipeW, rterm, wterm>>
    /\ UNCHANGED facadeVars
    /\ UNCHANGED readerVars
    /\ UNCHANGED openVars
    /\ Notify
WriterWriteErr ==
    /\ wpc = "write"
    /\ ~WritePortHeld
    /\ \E k \in 0..(Len(whand) - 1) : devOut' = devOut \o SubSeq(whand, 1, k)
    /\ \E e \in DevErrKinds : WriterExit(ErrIo(e, "device"))
    /\ whand' = <<>>
    /\ UNCHANGED <<rterm, wterm>>
    /\ UNCHANGED facadeVars
    /\ UNCHANGED readerVars
    /\ UNCHANGED openVars
    /\ Notify

\* write_thread_result_tx.send(..).unwrap()
WriterDeliver ==
    /\ wpc = "exited"
    /\ IF ReceiverLives
       THEN wpc' = "sent" /\ wterm' = ChSent(wexit)
       ELSE wpc' = "panicked" /\ UNCHANGED wterm
    /\ UNCHANGED <<whand, wexit, devOut, halves, pipeR, pipeW, rterm>>
    /\ UNCHANGED facadeVars
    /\ UNCHANGED readerVars
    /\ UNCHANGED openVars
    /\ Notify

\* the writer thread panics inside its loop
WriterCrash ==
    /\ wpc \in {"pull", "write"}
    /\ wpc' = "crashed"
    /\ wterm' = ChClosed
    /\ halves' = halves \ {"read_half"}
    /\ pipeR' = RelayDrop("read_half", pipeR)
    /\ pipeW' = RelayDrop("read_half", pipeW)
    /\ UNCHANGED <<whand, wexit, devOut, rterm>>
    /\ UNCHANGED facadeVars
    /\ UNCHANGED readerVars
    /\ UNCHANGED openVars
    /\ Notify

\* ------------------------------------------------------------- facade
\* this.read_err.poll(cx) / this.write_err.poll(cx): the Map future over the
\* oneshot receiver. It yields the flattened value once; polled again after
\* that it panics ("Map must not be polled after it returned Poll::Ready").
MapPoll(state, ch) ==
    IF state = "Complete" THEN "panic"
    ELSE IF ch.st = "empty" THEN "pending"
    ELSE "ready"

\* AsyncRead::poll_read with a ReadBuf of n free bytes
PollRead ==
    /\ alive
    /\ rtask.st # "mid"
    /\ \E n \in 1..MaxReq :
         LET t == MapPoll(read_err, rterm) IN
         IF t = "panic"
         THEN /\ rres' = ResPanic("read")
              /\ UNCHANGED <<read_err, pipeR, returned>>
         ELSE IF t = "ready"
         THEN /\ rres' = ResErr("read", to_std_io(flatten(rterm)))
              /\ read_err' = "Complete"
              /\ UNCHANGED <<pipeR, returned>>
         ELSE LET r == PipeRead(pipeR, n) IN
              /\ rres' = IF r.kind = "ok" THEN ResOk("read")
                         ELSE ResPending("read")
              /\ returned' = returned \o r.data
              /\ pipeR' = r.pipe
              /\ UNCHANGED read_err
    /\ UNCHANGED <<alive, write_err, wres, nAcc, rterm, wterm, pipeW, halves>>
    /\ UNCHANGED readerVars
    /\ UNCHANGED writerVars
    /\ UNCHANGED openVars
    /\ UNCHANGED wakeVars

\* AsyncWrite::poll_write offering the caller's next len bytes
PollWrite ==
    /\ alive
    /\ wtask.st # "mid"
    /\ \E len \in 1..MaxOffer :
         LET t == MapPoll(write_err, wterm) IN
         IF t = "panic"
         THEN /\ wres' = ResPanic("write")
              /\ UNCHANGED <<write_err, pipeW, nAcc>>
         ELSE IF t = "ready"
         THEN /\ wres' = ResErr("write", to_std_io(flatten(wterm)))
              /\ write_err' = "Complete"
              /\ UNCHANGED <<pipeW, nAcc>>
         ELSE LET r == PipeWrite(pipeW, Bytes(nAcc, len)) IN
              /\ nAcc + r.n <= MaxAcc
              /\ wres' = CASE r.kind = "ok" -> ResOk("write")
                           [] r.kind = "pending" -> ResPending("write")
                           [] OTHER -> ResErr("write", to_std_io(ErrIo("BrokenPipe", "pipe")))
              /\ nAcc' = nAcc + r.n
              /\ pipeW' = r.pipe
              /\ UNCHANGED write_err
    /\ UNCHANGED <<alive, read_err, rres, returned, rterm, wterm, pipeR, halves>>
    /\ UNCHANGED readerVars
    /\ UNCHANGED writerVars
    /\ UNCHANGED openVars
    /\ UNCHANGED wakeVars

\* AsyncWrite::poll_flush: the pipe's flush is always ready
PollFlush ==
    /\ alive
    /\ wtask.st # "mid"
    /\ LET t == MapPoll(write_err, wterm) IN
         IF t = "panic"
         THEN wres' = ResPanic("flush") /\ UNCHANGED write_err
         ELSE IF t = "ready"
         THEN /\ wres' = ResErr("flush", to_std_io(flatten(wterm)))
              /\ write_err' = "Complete"
         ELSE wres' = ResOk("flush") /\ UNCHANGED write_err
    /\ UNCHANGED <<alive, read_err, rres, returned, nAcc, rterm, wterm,
                   pipeR, pipeW, halves>>
    /\ UNCHANGED readerVars
    /\ UNCHANGED writerVars
    /\ UNCHANGED openVars
    /\ UNCHANGED wakeVars

\* AsyncWrite::poll_shutdown: the pipe's shutdown closes its write side
PollShutdownClosesBoth ==
    /\ alive
    /\ wtask.st # "mid"
    /\ LET t == MapPoll(write_err, wterm) IN
         IF t = "panic"
         THEN wres' = ResPanic("shutdown") /\ UNCHANGED <<write_err, pipeW, pipeR>>
         ELSE IF t = "ready"
         THEN /\ wres' = ResErr("shutdown", to_std_io(flatten(wterm)))
              /\ write_err' = "Complete"
              /\ UNCHANGED <<pipeW, pipeR>>
         ELSE /\ wres' = ResOk("shutdown")
              /\ pipeW' = PipeClose(pipeW)
              /\ pipeR' = PipeClose(pipeR)
              /\ UNCHANGED write_err
    /\ UNCHANGED <<alive, read_err, rres, returned, nAcc, rterm, wterm, halves>>
    /\ UNCHANGED readerVars
    /\ UNCHANGED writerVars
    /\ UNCHANGED openVars
    /\ UNCHANGED wakeVars
PollShutdown ==
    /\ alive
    /\ wtask.st # "mid"
    /\ LET t == MapPoll(write_err, wterm) IN
         IF t = "panic"
         THEN wres' = ResPanic("shutdown") /\ UNCHANGED <<write_err, pipeW>>
         ELSE IF t = "ready"
         THEN /\ wres' = ResErr("shutdown", to_std_io(flatten(wterm)))
              /\ write_err' = "Complete"
              /\ UNCHANGED pipeW
         ELSE /\ wres' = ResOk("shutdown")
              /\ pipeW' = PipeClose(pipeW)
              /\ UNCHANGED write_err
    /\ UNCHANGED <<alive, read_err, rres, returned, nAcc, rterm, wterm,
                   pipeR, halves>>
    /\ UNCHANGED readerVars
    /\ UNCHANGED writerVars
    /\ UNCHANGED openVars
    /\ UNCHANGED wakeVars

\* the caller drops the SerialStream: both oneshot receivers and the facade's
\* duplex stream go, which closes the write side of its write pipe and the
\* read side of its read pipe
FacadeDrop ==
    /\ alive
    /\ rtask.st # "mid" /\ wtask.st # "mid"
    /\ alive' = FALSE
    /\ pipeW' = PipeClose(pipeW)
    /\ pipeR' = PipeClose(pipeR)
    /\ UNCHANGED <<read_err, write_err, rres, wres, returned, nAcc, rterm, wterm, halves>>
    /\ UNCHANGED readerVars
    /\ UNCHANGED writerVars
    /\ UNCHANGED openVars
    /\ UNCHANGED wakeVars

\* ------------------------------------------------------------- polls in two steps
\* poll_read and poll_write as a task's executor runs them: polled when the
\* task is free to run or has been woken, and in two steps, between which the
\* relay threads may act. A pending poll of the termination channel registers
\* the task's waker with the channel; a pending poll of the pipe registers it
\* with the pipe.

\* poll_read: this.read_err.poll(cx)
PollReadChannel ==
    /\ alive
    /\ rtask.st = "idle" \/ (rtask.st = "parked" /\ rtask.woken)
    /\ LET t == MapPoll(read_err, rterm) IN
         IF t = "panic"
         THEN /\ rres' = ResPanic("read")
              /\ rtask' = [rtask EXCEPT !.st = "idle", !.woken = FALSE]
              /\ UNCHANGED read_err
         ELSE IF t = "ready"
         THEN /\ rres' = ResErr("read", to_std_io(flatten(rterm)))
              /\ read_err' = "Complete"
              /\ rtask' = [rtask EXCEPT !.st = "idle", !.woken = FALSE]
         ELSE /\ rtask' = [rtask EXCEPT !.st = "mid", !.chan = TRUE, !.woken = FALSE]
              /\ UNCHANGED <<rres, read_err>>
    /\ UNCHANGED <<alive, write_err, wres, returned, nAcc, wtask>>
    /\ UNCHANGED <<linkVars, readerVars, writerVars, openVars>>

\* poll_read: Poll::Pending => this.reader_duplex.poll_read(cx, buf)
PollReadPipe ==
    /\ alive
    /\ rtask.st = "mid"
    /\ \E n \in 1..MaxReq :
         LET r == PipeRead(pipeR, n) IN
         IF r.kind = "ok"
         THEN /\ rres' = ResOk("read")
              /\ returned' = returned \o r.data
              /\ pipeR' = r.pipe
              /\ rtask' = [rtask EXCEPT !.st = "idle", !.woken = FALSE]
         ELSE /\ rres' = ResPending("read")
              /\ rtask' = [rtask EXCEPT !.st = "parked", !.pipe = TRUE]
              /\ UNCHANGED <<returned, pipeR>>
    /\ UNCHANGED <<alive, read_err, write_err, wres, nAcc, wtask>>
    /\ UNCHANGED <<rterm, wterm, pipeW, halves>>
    /\ UNCHANGED <<readerVars, writerVars, openVars>>

\* poll_write: this.write_err.poll(cx)
PollWriteChannel ==
    /\ alive
    /\ wtask.st = "idle" \/ (wtask.st = "parked" /\ wtask.woken)
    /\ LET t == MapPoll(write_err, wterm) IN
         IF t = "panic"
         THEN /\ wres' = ResPanic("write")
              /\ wtask' = [wtask EXCEPT !.st = "idle", !.woken = FALSE]
              /\ UNCHANGED write_err
         ELSE IF t = "ready"
         THEN /\ wres' = ResErr("write", to_std_io(flatten(wterm)))
              /\ write_err' = "Complete"
              /\ wtask' = [wtask EXCEPT !.st = "idle", !.woken = FALSE]
         ELSE /\ wtask' = [wtask EXCEPT !.st = "mid", !.chan = TRUE, !.woken = FALSE]
              /\ UNCHANGED <<wres, write_err>>
    /\ UNCHANGED <<alive, read_err, rres, returned, nAcc, rtask>>
    /\ UNCHANGED <<linkVars, readerVars, writerVars, openVars>>

\* poll_write: Poll::Pending => this.writer_duplex.poll_write(cx, buf)
PollWritePipe ==
    /\ alive
    /\ wtask.st = "mid"
    /\ \E len \in 1..MaxOffer :
         LET r == PipeWrite(pipeW, Bytes(nAcc, len)) IN
         /\ nAcc + r.n <= MaxAcc
         /\ nAcc' = nAcc + r.n
         /\ pipeW' = r.pipe
         /\ IF r.kind = "pending"
            THEN /\ wres' = ResPending("write")
                 /\ wtask' = [wtask EXCEPT !.st = "parked", !.pipe = TRUE]
            ELSE /\ wres' = IF r.kind = "ok" THEN ResOk("write")
                            ELSE ResErr("write", to_std_io(ErrIo("BrokenPipe", "pipe")))
                 /\ wtask' = [wtask EXCEPT !.st = "idle", !.woken = FALSE]
    /\ UNCHANGED <<alive, read_err, write_err, rres, returned, rtask>>
    /\ UNCHANGED <<rterm, wterm, pipeR, halves>>
    /\ UNCHANGED <<readerVars, writerVars, openVars>>

\* ------------------------------------------------------------- open
\* the statements of open_native_async and open, in program order
OpenOrderCloneAfterSpawn ==
    <<"open_native", "set_timeout", "duplex", "split_relay", "read_channel",
      "spawn_reader", "try_clone", "write_channel", "spawn_writer", "return">>
OpenOrder ==
    <<"open_native", "set_timeout", "try_clone", "duplex", "split_relay",
      "read_channel", "spawn_reader", "write_channel", "spawn_writer", "return">>

OpenAfter(step) ==
    LET i == CHOOSE j \in 1..Len(OpenOrder) : OpenOrder[j] = step IN
    IF i = Len(OpenOrder) THEN "returned" ELSE OpenOrder[i + 1]

\* before open creates them: no pipe, no termination channel
NoPipe == [made |-> FALSE]
ChNone == [st |-> "none", val |-> NoErr]

\* a step of open ending in `?`: Ok, or Err(e) which open returns at once
OpenFallible(step) ==
    /\ opc = step
    /\ \/ opc' = OpenAfter(step) /\ UNCHANGED ores
       \/ \E k \in DevErrKinds :
             /\ opc' = "failed"
             /\ ores' = [kind |-> k, msg |-> step]
    /\ UNCHANGED <<facadeVars, readerVars, writerVars, linkVars, wakeVars>>

\* serialport::new(self.path, self.baud_rate).open()?
OpenNative == OpenFallible("open_native")

\* port.set_timeout(..)?
SetTimeout == OpenFallible("set_timeout")

\* let write_port = port.try_clone()?
TryClone == OpenFallible("try_clone")

\* let (for_rw_threads, duplex) = tokio::io::duplex(max_buf_size)
MakeDuplex ==
    /\ opc = "duplex"
    /\ opc' = OpenAfter(opc)
    /\ pipeR' = NewPipe
    /\ pipeW' = NewPipe
    /\ UNCHANGED <<ores, rterm, wterm, halves>>
    /\ UNCHANGED <<facadeVars, readerVars, writerVars, wakeVars>>

\* let (read_half, write_half) = tokio::io::split(for_rw_threads)
SplitRelay ==
    /\ opc = "split_relay"
    /\ opc' = OpenAfter(opc)
    /\ halves' = {"read_half", "write_half"}
    /\ UNCHANGED <<ores, rterm, wterm, pipeR, pipeW>>
    /\ UNCHANGED <<facadeVars, readerVars, writerVars, wakeVars>>

\* let (read_thread_result_tx, read_thread_result_rx) = oneshot::channel()
ReadChannel ==
    /\ opc = "read_channel"
    /\ opc' = OpenAfter(opc)
    /\ rterm' = ChEmpty
    /\ UNCHANGED <<ores, wterm, pipeR, pipeW, halves>>
    /\ UNCHANGED <<facadeVars, readerVars, writerVars, wakeVars>>

\* std::thread::spawn(move || { read_thread_result_tx.send(reader(..)).unwrap() })
SpawnReader ==
    /\ opc = "spawn_reader"
    /\ opc' = OpenAfter(opc)
    /\ rpc' = "read"
    /\ UNCHANGED <<buffer, rsz, roff, rexit, nIn, ores>>
    /\ UNCHANGED <<facadeVars, writerVars, linkVars, wakeVars>>

\* let (write_thread_result_tx, write_thread_result_rx) = oneshot::channel()
WriteChannel ==
    /\ opc = "write_channel"
    /\ opc' = OpenAfter(opc)
    /\ wterm' = ChEmpty
    /\ UNCHANGED <<ores, rterm, pipeR, pipeW, halves>>
    /\ UNCHANGED <<facadeVars, readerVars, writerVars, wakeVars>>

\* std::thread::spawn(move || { write_thread_result_tx.send(writer(..)).unwrap() })
SpawnWriter ==
    /\ opc = "spawn_writer"
    /\ opc' = OpenAfter(opc)
    /\ wpc' = "pull"
    /\ UNCHANGED <<whand, wexit, devOut, ores>>
    /\ UNCHANGED <<facadeVars, readerVars, linkVars, wakeVars>>

\* split(duplex) and Ok(SerialStream { read_err: .., write_err: .., .. })
OpenReturn ==
    /\ opc = "return"
    /\ opc' = OpenAfter(opc)
    /\ alive' = TRUE
    /\ read_err' = "Incomplete"
    /\ write_err' = "Incomplete"
    /\ UNCHANGED <<rres, wres, returned, nAcc, ores>>
    /\ UNCHANGED <<readerVars, writerVars, linkVars, wakeVars>>

\* open_native_async has been called and has executed nothing yet
OpenInit ==
    /\ opc = OpenOrder[1]
    /\ ores = NoIoErr
    /\ alive = FALSE
    /\ read_err = "None"
    /\ write_err = "None"
    /\ rterm = ChNone
    /\ wterm = ChNone
    /\ pipeR = NoPipe
    /\ pipeW = NoPipe
    /\ halves = {}
    /\ rpc = "unspawned"
    /\ buffer = [i \in 1..ReadChunk |-> 0]
    /\ rsz = 0
    /\ roff = 0
    /\ rexit = NoErr
    /\ wpc = "unspawned"
    /\ whand = <<>>
    /\ wexit = NoErr
    /\ nIn = 0
    /\ nAcc = 0
    /\ devOut = <<>>
    /\ returned = <<>>
    /\ rres = ResNone
    /\ wres = ResNone
    /\ rtask = IdleTask
    /\ wtask = IdleTask

OpenStep ==
    \/ OpenNative \/ SetTimeout \/ TryClone \/ MakeDuplex \/ SplitRelay
    \/ ReadChannel \/ SpawnReader \/ WriteChannel \/ SpawnWriter \/ OpenReturn

\* ------------------------------------------------------------- specifications
ReaderStep == ReaderRead \/ ReaderReadErr \/ ReaderForward \/ ReaderDeliver
WriterStep == WriterPull \/ WriterEOF \/ WriterWriteOk \/ WriterWriteErr \/ WriterDeliver
FacadeStep == PollRead \/ PollWrite \/ PollFlush \/ PollShutdown \/ FacadeDrop

Next == ReaderStep \/ WriterStep \/ FacadeStep

Spec == Init /\ [][Next]_vars

\* The writer thread is an OS thread that keeps running, and a device write in
\* progress completes (with Ok or Err). Nothing is assumed of the reader, of
\* the device delivering data, or of the caller.
FairSpec == Spec /\ WF_vars(WriterStep)

\* Both relay threads are OS threads that keep running: the writer as in
\* FairSpec, the reader in its pipe forward and in delivering its result.
\* Nothing is assumed of the device returning from a read.
TeardownSpec == Spec /\ WF_vars(WriterStep) /\ WF_vars(ReaderForward \/ ReaderDeliver)

\* the terminal failures the relay threads can have delivered to a live
\* facade: a failed first device read or first device write (any error kind
\* and message of the device), SenderClosed after a poll_shutdown, or a
\* dropped sender after a panic; both threads have ended and the relay
\* stream is dropped
ConvKinds == {"PermissionDenied", "WouldBlock", "BrokenPipe", "TimedOut", "Other"}
ConvMsgs == {"device", "port gone"}
ConvReaderEnds ==
    {[pc |-> "sent", exit |-> ErrIo(k, m)] : k \in ConvKinds, m \in ConvMsgs}
        \cup {[pc |-> "crashed", exit |-> NoErr]}
ConvWriterEnds ==
    {[pc |-> "sent", exit |-> ErrIo(k, m)] : k \in ConvKinds, m \in ConvMsgs}
        \cup {[pc |-> "sent", exit |-> ErrSenderClosed],
              [pc |-> "crashed", exit |-> NoErr]}

ConvInit ==
    /\ alive = TRUE
    /\ read_err = "Incomplete"
    /\ write_err = "Incomplete"
    /\ \E r \in ConvReaderEnds :
          /\ rpc = r.pc
          /\ rexit = r.exit
          /\ rterm = IF r.pc = "sent" THEN ChSent(r.exit) ELSE ChClosed
    /\ \E w \in ConvWriterEnds :
          /\ wpc = w.pc
          /\ wexit = w.exit
          /\ wterm = IF w.pc = "sent" THEN ChSent(w.exit) ELSE ChClosed
          /\ nAcc = IF w.exit.class = "Io" THEN 1 ELSE 0
          /\ wres = CASE w.exit.class = "Io" -> ResOk("write")
                      [] w.exit = ErrSenderClosed -> ResOk("shutdown")
                      [] OTHER -> ResNone
    /\ pipeR = PipeClose(NewPipe)
    /\ pipeW = PipeClose(NewPipe)
    /\ halves = {}
    /\ buffer = [i \in 1..ReadChunk |-> 0]
    /\ rsz = 0
    /\ roff = 0
    /\ whand = <<>>
    /\ nIn = 0
    /\ devOut = <<>>
    /\ returned = <<>>
    /\ rres = ResNone
    /\ opc = "returned"
    /\ ores = NoIoErr
    /\ rtask = IdleTask
    /\ wtask = IdleTask

ConvNext == PollRead \/ PollWrite \/ PollFlush \/ PollShutdown

ConvSpec == ConvInit /\ [][ConvNext]_vars

\* Spec with relay threads that may also panic inside their loops
\* open from its call on, the relay threads running as soon as spawned
OpenNext == OpenStep \/ Next
OpenSpec == OpenInit /\ [][OpenNext]_vars

\* poll_shutdown takes &mut self: the task calling it is running, not parked
\* in a poll_write
ShutdownByRunningTask == wtask.st = "idle" /\ PollShutdown

\* the facade polled by tasks that sleep until woken, the relay threads
\* running, failing or panicking at any point between the steps of a poll
WakeNext ==
    \/ ReaderStep \/ WriterStep \/ ReaderCrash \/ WriterCrash
    \/ PollReadChannel \/ PollReadPipe \/ PollWriteChannel \/ PollWritePipe
    \/ ShutdownByRunningTask \/ FacadeDrop
WakeSpec == Init /\ [][WakeNext]_vars

NextCrash == Next \/ ReaderCrash \/ WriterCrash
CrashSpec == Init /\ [][NextCrash]_vars

\* ------------------------------------------------------------- claims
ReaderRunning == rpc \in {"read", "forward"}
WriterRunning == wpc \in {"pull", "write"}
WriterEnded == wpc \in {"sent", "panicked"}

\* C1 (as claimed): once a poll of a direction has returned the relay
\* thread's terminal failure (the direction's Map future is Complete), the
\* latest poll of that direction is ready-with-error carrying that failure.
C1_ErrorDurable ==
    /\ read_err = "Complete" =>
          rres.kind = "err" /\ rres.err = to_std_io(flatten(rterm))
    /\ write_err = "Complete" =>
          wres.kind = "err" /\ wres.err = to_std_io(flatten(wterm))

\* C2: the bytes written to the device are a prefix of the bytes accepted by
\* poll_write, and while the writer runs every accepted byte is, in order,
\* on the device, in the writer's hand or in the pipe (none lost, duplicated,
\* reordered or altered).
C2_WriteFidelity ==
    /\ IsPrefix(devOut, Bytes(0, nAcc))
    /\ WriterRunning => devOut \o whand \o pipeW.buf = Bytes(0, nAcc)

C2_Witness == devOut # <<>> /\ whand # <<>> /\ pipeW.buf # <<>>

\* C3: the bytes returned by poll_read are a prefix of the bytes the reader
\* obtained from device reads, and while the reader runs every obtained byte
\* is, in order, returned, in the pipe or in the unforwarded rest of
\* buffer[..sz] (nothing of the buffer's unused tail).
C3_ReadFifo ==
    /\ IsPrefix(returned, Bytes(0, nIn))
    /\ ReaderRunning =>
          returned \o pipeR.buf \o SubSeq(buffer, roff + 1, rsz) = Bytes(0, nIn)

C3_Witness ==
    /\ returned # <<>>
    /\ pipeR.buf # <<>>
    /\ rsz < ReadChunk
    /\ nIn = MaxIn

\* C4 (as claimed): bytes forwarded before the reader thread failed are
\* returned to the caller before the failure is reported: when poll_read
\* reports the failure no forwarded byte is left unreturned in the pipe.
C4_NoReadLoss == rres.kind = "err" => pipeR.buf = <<>>

\* C5: a relay thread leaving its loop, and its delivering the failure, leave
\* the other direction as it was while that direction's thread runs: the
\* other pipe is not closed or changed, the other termination signal stays
\* unresolved and the other direction's poll results are untouched.
C5_Independent ==
    /\ [](~ReaderRunning /\ WriterRunning => wterm = ChEmpty /\ write_err = "Incomplete")
    /\ [](~WriterRunning /\ ReaderRunning => rterm = ChEmpty /\ read_err = "Incomplete")
    /\ [][/\ (rpc' # rpc /\ ~ReaderRunning' /\ WriterRunning)
                => UNCHANGED <<pipeW, wterm, write_err, wres, nAcc, writerVars>>
          /\ (wpc' # wpc /\ ~WriterRunning' /\ ReaderRunning)
                => UNCHANGED <<pipeR, rterm, read_err, rres, returned, readerVars>>]_vars

C5_Witness ==
    /\ rpc = "sent"
    /\ rres.kind = "err"
    /\ wpc = "write"
    /\ wres = ResOk("write")
    /\ ~pipeW.closed

\* C6: a poll_write of a healthy write direction (termination signal
\* unresolved, pipe not shut down) reports pending, and changes nothing, when
\* the pipe is full, and otherwise accepts as many of the offered bytes as
\* fit, appending them to the pipe; and with the writer thread running, again
\* and again everything accepted has reached the device, unless a device
\* write failed.
C6_BackPressure ==
    /\ [][(PollWrite /\ write_err = "Incomplete" /\ wterm = ChEmpty /\ ~pipeW.closed)
            => IF Len(pipeW.buf) = Cap
               THEN wres' = ResPending("write") /\ pipeW' = pipeW /\ nAcc' = nAcc
               ELSE /\ wres' = ResOk("write")
                    /\ nAcc' > nAcc
                    /\ pipeW'.buf = pipeW.buf \o Bytes(nAcc, nAcc' - nAcc)
                    /\ Len(pipeW'.buf) <= Cap]_vars
    /\ []<>(devOut = Bytes(0, nAcc) \/ (wexit.class = "Io" /\ wexit.msg = "device"))

C6_Witness ==
    /\ wres = ResPending("write")
    /\ Len(pipeW.buf) = Cap
    /\ wpc = "write"
    /\ nAcc > Cap

\* the device-write consumer is paused: no port.write_all has completed
Stalled == devOut = <<>> /\ WriterRunning

\* C7 (as claimed): with the device-write consumer paused, poll_write reports
\* pending when exactly Cap bytes have been accepted.
C7_ExactlyCap ==
    [][(PollWrite /\ wres' = ResPending("write") /\ Stalled) => nAcc = Cap]_vars

\* C7 (amended): with the device-write consumer paused, poll_write reports
\* pending exactly when Cap bytes sit in the pipe; the bytes accepted by then
\* are those Cap bytes plus the one chunk the writer thread has pulled and
\* holds in its stalled write_all.
C7_CapPlusChunk ==
    [][(PollWrite /\ wres' = ResPending("write") /\ Stalled)
         => /\ Len(pipeW.buf) = Cap
            /\ nAcc = Cap + Len(whand)
            /\ Len(whand) <= Min(Cap, StreamCap)]_vars

C7_Witness ==
    /\ wres = ResPending("write")
    /\ Stalled
    /\ Len(pipeW.buf) = Cap
    /\ whand # <<>>

\* C8: once the facade is dropped (after poll_shutdown or not) the writer
\* thread eventually ends, and a writer thread that left its loop without a
\* device-write error left it with Error::SenderClosed.
C8_CleanShutdown ==
    /\ (~alive) ~> WriterEnded
    /\ [](~WriterRunning /\ ~(wexit.class = "Io" /\ wexit.msg = "device")
             => wexit = ErrSenderClosed)

C8_Witness ==
    /\ ~alive
    /\ wres = ResOk("shutdown")
    /\ wpc = "panicked"
    /\ wexit = ErrSenderClosed
    /\ devOut # <<>>

C10_CrashSurfaced ==
    [][/\ (PollRead /\ read_err = "Incomplete" /\ rterm = ChClosed)
            => rres' = ResErr("read",
                   [kind |-> "Other", msg |-> "sending thread paniced channel closed"])
       /\ ((PollWrite \/ PollFlush \/ PollShutdown)
              /\ write_err = "Incomplete" /\ wterm = ChClosed)
            => /\ wres'.kind = "err"
               /\ wres'.err =
                   [kind |-> "Other", msg |-> "sending thread paniced channel closed"]]_vars

C10_Witness ==
    /\ rpc = "crashed"
    /\ rres.kind = "err"
    /\ rres.err.kind = "Other"
    /\ wpc = "crashed"
    /\ wres.kind = "err"
    /\ alive

\* C11 (as claimed): once the facade is dropped both relay threads
\* eventually leave their loops.
C11_BothExit == (~alive) ~> (~ReaderRunning /\ ~WriterRunning)

\* C11 (amended): once the facade is dropped the writer thread eventually
\* leaves its loop, and so does a reader thread that is forwarding bytes into
\* the pipe (it gets a broken pipe); a reader thread that left its loop after
\* the drop did so with an I/O error, and panics at the failed send.
C11_TeardownWriterAndForwardingReader ==
    /\ (~alive) ~> ~WriterRunning
    /\ (~alive /\ rpc = "forward") ~> ~ReaderRunning
    /\ [](rpc = "panicked" => ~alive /\ rexit.class = "Io")

C11_Witness ==
    /\ ~alive
    /\ rpc = "panicked"
    /\ rexit = ErrIo("BrokenPipe", "pipe")
    /\ wpc = "panicked"
    /\ wexit = ErrSenderClosed

\* C12: poll_shutdown changes nothing of the read direction; once the writer
\* thread has then left its loop with Error::SenderClosed and while the reader
\* thread runs, the read pipe is not closed, the read termination signal is
\* unresolved, and a poll_read finding bytes in the pipe returns them.
C12_ShutdownLeavesRead ==
    /\ [][PollShutdown
            => UNCHANGED <<pipeR, rterm, read_err, rres, returned, readerVars>>]_vars
    /\ [](alive /\ wexit = ErrSenderClosed /\ ReaderRunning
            => ~pipeR.closed /\ rterm = ChEmpty /\ read_err = "Incomplete")
    /\ [][(PollRead /\ wexit = ErrSenderClosed /\ ReaderRunning /\ pipeR.buf # <<>>)
            => /\ rres' = ResOk("read")
               /\ returned' # returned
               /\ returned' \o pipeR'.buf = returned \o pipeR.buf]_vars

C12_Witness ==
    /\ alive
    /\ wpc = "sent"
    /\ wexit = ErrSenderClosed
    /\ write_err = "Complete"
    /\ ReaderRunning
    /\ rres = ResOk("read")
    /\ Len(returned) = MaxIn

\* C13 (as claimed): every facade poll whose termination signal is resolved
\* returns ready-with-error and leaves the pipe untouched, whatever the pipe
\* holds; with the signal unresolved the result is the pipe's (pending
\* exactly when the open read pipe is empty or the open write pipe is full).
C13_PollDecisionRule ==
    /\ [][PollRead =>
            IF rterm # ChEmpty
            THEN rres'.kind = "err" /\ pipeR' = pipeR /\ returned' = returned
            ELSE rres'.kind = "pending" <=> (pipeR.buf = <<>> /\ ~pipeR.closed)]_vars
    /\ [][(PollWrite \/ PollFlush \/ PollShutdown) =>
            IF wterm # ChEmpty
            THEN wres'.kind = "err" /\ pipeW' = pipeW /\ nAcc' = nAcc
            ELSE wres'.kind = "pending" <=>
                    /\ wres'.op = "write"
                    /\ Len(pipeW.buf) = PipeCapacity
                    /\ ~pipeW.closed]_vars

\* C15: the reader thread leaves its loop only on a failed device read or a
\* failed pipe forward, its exit value and its termination signal are always
\* an Error::Io failure, and a device read of zero bytes forwards nothing,
\* produces no signal and leads to the next device read.
C15_ReaderLoopExit ==
    /\ [](~ReaderRunning => rexit.class = "Io")
    /\ [](rterm = ChEmpty \/ (rterm = ChSent(rexit) /\ rexit.class = "Io"))
    /\ [][(ReaderRunning /\ ~ReaderRunning') =>
            \/ /\ rpc = "read"
               /\ \E k \in DevErrKinds : rexit' = ErrIo(k, "device")
            \/ /\ rpc = "forward"
               /\ pipeR.closed
               /\ rexit' = ErrIo("BrokenPipe", "pipe")]_vars
    /\ [][(ReaderRead /\ rsz' = 0) =>
            /\ rpc' = "read"
            /\ pipeR' = pipeR
            /\ rterm' = rterm
            /\ rexit' = rexit]_vars

C15_Witness ==
    /\ rpc = "read"
    /\ rsz = 0
    /\ nIn > 0
    /\ nIn < MaxIn
    /\ rexit = NoErr
    /\ rterm = ChEmpty

\* C17: while the writer thread runs only poll_shutdown or the facade's drop
\* closes the write pipe; the writer produces Error::SenderClosed only on a
\* closed and empty write pipe with nothing in hand; and whenever it has
\* produced it every byte accepted by poll_write is on the device, in order.
C17_DrainBeforeSenderClosed ==
    /\ [][(~pipeW.closed /\ pipeW'.closed /\ WriterRunning')
            => (PollShutdown \/ FacadeDrop)]_vars
    /\ [][(wexit # ErrSenderClosed /\ wexit' = ErrSenderClosed) =>
            /\ pipeW.closed
            /\ pipeW.buf = <<>>
            /\ whand = <<>>
            /\ devOut = Bytes(0, nAcc)]_vars
    /\ [](wexit = ErrSenderClosed =>
            /\ pipeW.closed
            /\ pipeW.buf = <<>>
            /\ devOut = Bytes(0, nAcc))

C17_Witness ==
    /\ wexit = ErrSenderClosed
    /\ wpc = "sent"
    /\ wres = ResOk("shutdown")
    /\ nAcc = MaxAcc
    /\ devOut = Bytes(0, MaxAcc)

\* C19: the bytes obtained from the device and not yet returned by poll_read
\* are, while the reader runs, exactly those in the read pipe plus those in
\* the reader's hand, so never more than the pipe capacity plus one read
\* chunk; the reader holds bytes only while forwarding, and with the pipe
\* full and bytes in hand its only step is enabled by a poll_read.
C19_BoundedReadBuffering ==
    /\ [](Len(pipeR.buf) <= Cap)
    /\ [](rsz - roff \in 0..ReadChunk)
    /\ [](nIn - Len(returned) <= Cap + ReadChunk)
    /\ [](rpc = "read" => roff = rsz)
    /\ [](ReaderRunning => nIn - Len(returned) = Len(pipeR.buf) + (rsz - roff))
    /\ [](rpc = "forward" /\ Len(pipeR.buf) = Cap /\ ~pipeR.closed
            => ~ENABLED ReaderStep)
    /\ [][(rpc = "forward" /\ Len(pipeR.buf) = Cap /\ ~pipeR.closed)
            => nIn' = nIn]_vars

C19_Witness ==
    /\ alive
    /\ rpc = "forward"
    /\ Len(pipeR.buf) = Cap
    /\ rsz - roff = ReadChunk
    /\ nIn - Len(returned) = Cap + ReadChunk
    /\ ~ENABLED ReaderStep

\* C14: the first poll that finds a terminal failure returns an error, never
\* a success: an Error::Io failure is reported with its own kind and message,
\* Error::SenderClosed and a dropped sender (Error::OneshotRecv) are reported
\* with kind Other and the failure's descriptive message.
C14_ErrorConversion ==
    /\ [][(PollRead /\ read_err = "Incomplete" /\ rterm # ChEmpty) =>
            rres' = ResErr("read",
                IF rterm.st = "sent" /\ rterm.val.class = "Io"
                THEN [kind |-> rterm.val.kind, msg |-> rterm.val.msg]
                ELSE [kind |-> "Other",
                      msg |-> "sending thread paniced channel closed"])]_vars
    /\ [][((PollWrite \/ PollFlush \/ PollShutdown)
             /\ write_err = "Incomplete" /\ wterm # ChEmpty) =>
            /\ wres'.kind = "err"
            /\ wres'.err =
                IF wterm.st = "sent" /\ wterm.val.class = "Io"
                THEN [kind |-> wterm.val.kind, msg |-> wterm.val.msg]
                ELSE IF wterm.st = "sent"
                THEN [kind |-> "Other", msg |-> "sending channel closed"]
                ELSE [kind |-> "Other",
                      msg |-> "sending thread paniced channel closed"]]_vars

C14_Witness ==
    /\ rres = ResErr("read", [kind |-> "WouldBlock", msg |-> "port gone"])
    /\ wres = ResErr("flush", [kind |-> "Other", msg |-> "sending channel closed"])

\* C20: each relay thread touches its termination channel in one step only,
\* after its loop has ended; that step delivers the thread's failure when the
\* facade is alive and panics, leaving the channel untouched, exactly when the
\* facade has been dropped, after which no poll can observe the channel.
C20_TerminationDelivery ==
    /\ [][(rpc = "exited" /\ rpc' # rpc) =>
            IF alive THEN rpc' = "sent" /\ rterm' = ChSent(rexit)
            ELSE rpc' = "panicked" /\ rterm' = rterm]_vars
    /\ [][(wpc = "exited" /\ wpc' # wpc) =>
            IF alive THEN wpc' = "sent" /\ wterm' = ChSent(wexit)
            ELSE wpc' = "panicked" /\ wterm' = wterm]_vars
    /\ [][(rterm' # rterm => rpc = "exited" /\ rterm = ChEmpty)
            /\ (wterm' # wterm => wpc = "exited" /\ wterm = ChEmpty)]_vars
    /\ [][(rpc \in {"sent", "panicked"} => rpc' = rpc)
            /\ (wpc \in {"sent", "panicked"} => wpc' = wpc)]_vars
    /\ [](rpc = "panicked" \/ wpc = "panicked"
            => ~alive /\ ~ENABLED (PollRead \/ PollWrite \/ PollFlush \/ PollShutdown))
    /\ []((rpc = "panicked" => rterm = ChEmpty) /\ (wpc = "panicked" => wterm = ChEmpty))

C20_Witness ==
    /\ ~alive
    /\ rpc = "panicked"
    /\ rterm = ChEmpty
    /\ wpc = "sent"
    /\ wterm = ChSent(wexit)
    /\ wexit.class = "Io"

C18_NoLostWakeup ==
    /\ [](alive /\ rtask.st = "parked" /\ ~rtask.woken =>
            /\ rtask.chan /\ rtask.pipe
            /\ rterm = ChEmpty
            /\ pipeR.buf = <<>> /\ ~pipeR.closed)
    /\ [](alive /\ wtask.st = "parked" /\ ~wtask.woken =>
            /\ wtask.chan /\ wtask.pipe
            /\ wterm = ChEmpty
            /\ Len(pipeW.buf) = Cap /\ ~pipeW.closed)
    /\ [](alive /\ rtask.st = "parked" /\ rtask.woken => ENABLED PollReadChannel)
    /\ [](alive /\ wtask.st = "parked" /\ wtask.woken => ENABLED PollWriteChannel)

C18_Witness ==
    /\ alive
    /\ rtask.st = "parked" /\ rtask.woken /\ rtask.chan /\ ~rtask.pipe
    /\ pipeR.buf # <<>>
    /\ wtask.st = "parked" /\ wtask.woken /\ wtask.pipe /\ ~wtask.chan
    /\ wterm.st = "sent"

====
